---- MODULE Spec2Model ----
(***************************************************************************)
(* Model of accounting_app.py: a double-entry ledger kept in one table of  *)
(* JournalEntry rows (the store) and three per-client Reflex states,       *)
(* AccountingState, LedgerState and TrialBalanceState.                     *)
(*                                                                         *)
(* Money is a Python float in the source.  The model keeps amounts as      *)
(* exact integers counted in thousandths (0.001), so 0.01 is 10.  IEEE     *)
(* rounding, inf and nan are outside the model.                            *)
(***************************************************************************)
EXTENDS Integers, Sequences, FiniteSets, TLC

VARIABLES
    store,              \* the JournalEntry table, in id (insertion) order
    posted,             \* history: the postings committed so far
    now,                \* the wall clock, in minutes
    pc,                 \* per client: position inside add_transaction
    alert,              \* per client: what its last event handler returned
    description,        \* AccountingState.description
    amount,             \* AccountingState.amount
    debit_account,      \* AccountingState.debit_account
    credit_account,     \* AccountingState.credit_account
    entries,            \* AccountingState.entries
    selected_account,   \* LedgerState.selected_account
    ledger_entries,     \* LedgerState.ledger_entries
    available_accounts, \* LedgerState.available_accounts
    rows,               \* TrialBalanceState.rows
    total_dr,           \* TrialBalanceState.total_dr
    total_cr,           \* TrialBalanceState.total_cr
    tb_seen,            \* history: per client, the table length the last
                        \* calculate_trial_balance read, -1 before the first
    ledger_seen         \* history: per client, the table length and the
                        \* number of postings the last get_ledger_entries
                        \* read, -1 before the first

formVars == <<description, amount, debit_account, credit_account>>
acctVars == <<pc, description, amount, debit_account, credit_account, entries>>
ledgerVars == <<selected_account, ledger_entries, available_accounts, ledger_seen>>
tbVars == <<rows, total_dr, total_cr, tb_seen>>
dbVars == <<store, posted>>
vars == <<store, posted, now, pc, alert, description, amount, debit_account,
          credit_account, entries, selected_account, ledger_entries,
          available_accounts, rows, total_dr, total_cr, tb_seen, ledger_seen>>

----------------------------------------------------------------------------
(* Bounds *)

MaxPostings == 2
InitMinute == 9
MaxTicks == 1

(* Clients, each with its own instance of the three states *)
Sessions == {"s1", "s2"}

(* Account names; any string is an account *)
Accounts == {"Cash", "Sales Revenue", "Bank Loan"}

(* 0.01, the threshold of calculate_trial_balance and is_balanced *)
EPS == 10

----------------------------------------------------------------------------
(* Helpers *)

Abs(x) == IF x < 0 THEN -x ELSE x

RECURSIVE Reverse(_)
Reverse(q) == IF q = <<>> THEN <<>> ELSE Append(Reverse(Tail(q)), Head(q))

RECURSIVE SumDebit(_)
SumDebit(q) == IF q = <<>> THEN 0 ELSE Head(q).debit + SumDebit(Tail(q))

RECURSIVE SumCredit(_)
SumCredit(q) == IF q = <<>> THEN 0 ELSE Head(q).credit + SumCredit(Tail(q))

Range(q) == {q[i] : i \in 1..Len(q)}

(* All orderings of a finite set *)
RECURSIVE Orderings(_)
Orderings(S) ==
    IF S = {} THEN {<<>>}
    ELSE UNION {{<<x>> \o q : q \in Orderings(S \ {x})} : x \in S}

----------------------------------------------------------------------------
(* float(self.amount): the value in thousandths, or ValueError *)
ParseFloat(str) ==
    CASE str = "0"     -> [ok |-> TRUE, val |-> 0]
      [] str = "-5"    -> [ok |-> TRUE, val |-> -5000]
      [] str = "0.005" -> [ok |-> TRUE, val |-> 5]
      [] str = "0.02"  -> [ok |-> TRUE, val |-> 20]
      [] str = "30"    -> [ok |-> TRUE, val |-> 30000]
      [] str = "50"    -> [ok |-> TRUE, val |-> 50000]
      [] str = "100"   -> [ok |-> TRUE, val |-> 100000]
      [] OTHER         -> [ok |-> FALSE, val |-> 0]

(* datetime.now().strftime("%Y-%m-%d %H:%M"): zero-padded decimal fields, *)
(* here the two digits of the minute count                                *)
FormatDate(t) == <<(t \div 10) % 10, t % 10>>

(* String comparison of two formatted dates, as the database compares the *)
(* str column JournalEntry.date                                           *)
RECURSIVE DateLess(_, _)
DateLess(a, b) ==
    IF a = <<>> THEN b # <<>>
    ELSE IF b = <<>> THEN FALSE
    ELSE IF Head(a) # Head(b) THEN Head(a) < Head(b)
    ELSE DateLess(Tail(a), Tail(b))

(* JournalEntry(...) with the auto-increment primary key *)
JournalEntry(id, date, desc, account, category, debit, credit) ==
    [id |-> id, date |-> date, description |-> desc, account |-> account,
     category |-> category, debit |-> debit, credit |-> credit]

(* Commit with the commit placed before the second session.add *)
Commit_FirstOnly(table, pending) ==
    Append(table, [pending[1] EXCEPT !.id = Len(table) + 1])

(* Commit that rewrites the table instead of appending to it *)
Commit_Replace(table, pending) ==
    [i \in 1..Len(pending) |-> [pending[i] EXCEPT !.id = i]]

(* session.add(debit_entry); session.add(credit_entry); session.commit():  *)
(* one database transaction appending both rows                            *)
Commit(table, pending) ==
    table \o [i \in 1..Len(pending) |->
                 [pending[i] EXCEPT !.id = Len(table) + i]]

----------------------------------------------------------------------------
Init ==
    /\ store = <<>>
    /\ posted = <<>>
    /\ now = InitMinute
    /\ pc = [s \in Sessions |-> "idle"]
    /\ alert = [s \in Sessions |-> "none"]
    /\ description = [s \in Sessions |-> ""]
    /\ amount = [s \in Sessions |-> "0"]
    /\ debit_account = [s \in Sessions |-> "Cash"]
    /\ credit_account = [s \in Sessions |-> "Sales Revenue"]
    /\ entries = [s \in Sessions |-> <<>>]
    /\ selected_account = [s \in Sessions |-> "Cash"]
    /\ ledger_entries = [s \in Sessions |-> <<>>]
    /\ available_accounts = [s \in Sessions |-> <<>>]
    /\ rows = [s \in Sessions |-> <<>>]
    /\ total_dr = [s \in Sessions |-> 0]
    /\ total_cr = [s \in Sessions |-> 0]
    /\ tb_seen = [s \in Sessions |-> -1]
    /\ ledger_seen = [s \in Sessions |-> [rows |-> -1, postings |-> -1]]

----------------------------------------------------------------------------
(* AccountingState *)

(* A handler that returns nothing *)
ReturnNone(s) == alert' = [alert EXCEPT ![s] = "none"]

(* select(JournalEntry).order_by(JournalEntry.id.desc()) *)
LoadEntries(table) == Reverse(table)

(* load_entries: fetch all entries from the database *)
load_entries(s) ==
    /\ pc[s] = "idle"
    /\ entries' = [entries EXCEPT ![s] = LoadEntries(store)]
    /\ ReturnNone(s)
    /\ UNCHANGED <<dbVars, now, pc, formVars, ledgerVars, tbVars>>

(* The setters Reflex generates for the form fields *)
set_description(s, v) ==
    /\ pc[s] = "idle"
    /\ description' = [description EXCEPT ![s] = v]
    /\ ReturnNone(s)
    /\ UNCHANGED <<dbVars, now, pc, amount, debit_account,
                   credit_account, entries, ledgerVars, tbVars>>

set_amount(s, v) ==
    /\ pc[s] = "idle"
    /\ amount' = [amount EXCEPT ![s] = v]
    /\ ReturnNone(s)
    /\ UNCHANGED <<dbVars, now, pc, description, debit_account,
                   credit_account, entries, ledgerVars, tbVars>>

set_debit_account(s, v) ==
    /\ pc[s] = "idle"
    /\ debit_account' = [debit_account EXCEPT ![s] = v]
    /\ ReturnNone(s)
    /\ UNCHANGED <<dbVars, now, pc, description, amount,
                   credit_account, entries, ledgerVars, tbVars>>

set_credit_account(s, v) ==
    /\ pc[s] = "idle"
    /\ credit_account' = [credit_account EXCEPT ![s] = v]
    /\ ReturnNone(s)
    /\ UNCHANGED <<dbVars, now, pc, description, amount,
                   debit_account, entries, ledgerVars, tbVars>>

(* NewEntries with the credit row's amounts copied from the debit row *)
NewEntries_BothDebit(date, desc, amt, dr_acc, cr_acc) ==
    << JournalEntry(0, date, desc, dr_acc, "Debit", amt, 0),
       JournalEntry(0, date, desc, cr_acc, "Credit", amt, 0) >>

(* The two rows add_transaction builds; the key is set by the commit *)
NewEntries(date, desc, amt, dr_acc, cr_acc) ==
    << JournalEntry(0, date, desc, dr_acc, "Debit", amt, 0),
       JournalEntry(0, date, desc, cr_acc, "Credit", 0, amt) >>

(* NonPositive as if amt < 0 *)
NonPositive_Strict(amt) == amt < 0

(* if amt <= 0 *)
NonPositive(amt) == amt <= 0

(* add_transaction up to the end of its database transaction: parse and   *)
(* check the amount, build the two rows, commit them.  The reload that     *)
(* follows runs in a database session of its own, so other clients may     *)
(* commit between the two.                                                 *)
add_transaction(s) ==
    /\ pc[s] = "idle"
    /\ LET amt == ParseFloat(amount[s]) IN
        IF ~amt.ok THEN
            /\ alert' = [alert EXCEPT ![s] = "Invalid Amount"]
            /\ UNCHANGED <<dbVars, pc>>
        ELSE IF NonPositive(amt.val) THEN
            /\ alert' = [alert EXCEPT ![s] = "Amount must be positive."]
            /\ UNCHANGED <<dbVars, pc>>
        ELSE
            /\ Len(posted) < MaxPostings
            /\ store' = Commit(store,
                               NewEntries(FormatDate(now), description[s], amt.val,
                                          debit_account[s], credit_account[s]))
            /\ posted' = Append(posted, [amount |-> amt.val,
                                         debit_account |-> debit_account[s],
                                         credit_account |-> credit_account[s],
                                         description |-> description[s],
                                         date |-> FormatDate(now)])
            /\ pc' = [pc EXCEPT ![s] = "reload"]
            /\ UNCHANGED alert
    /\ UNCHANGED <<now, formVars, entries, ledgerVars, tbVars>>

(* add_transaction after the commit: reset the form, reload, return None *)
add_transaction_reload(s) ==
    /\ pc[s] = "reload"
    /\ description' = [description EXCEPT ![s] = ""]
    /\ amount' = [amount EXCEPT ![s] = "0"]
    /\ entries' = [entries EXCEPT ![s] = LoadEntries(store)]
    /\ pc' = [pc EXCEPT ![s] = "idle"]
    /\ ReturnNone(s)
    /\ UNCHANGED <<dbVars, now, debit_account, credit_account,
                   ledgerVars, tbVars>>

(* total_balance: debits minus credits of the loaded entries *)
total_balance(s) == SumDebit(entries[s]) - SumCredit(entries[s])

----------------------------------------------------------------------------
(* LedgerState *)

(* The maximal date of a non-empty set of rows, by string comparison *)
MaxDate(S) == CHOOSE d \in {r.date : r \in S} :
                  \A r \in S : ~DateLess(d, r.date)

(* OrderByDateDesc without the ORDER BY *)
OrderUnsorted(S) == Orderings(S)

(* The orders ORDER BY date DESC may return the rows of S in: the query    *)
(* names no second key, so rows of equal date come in any order            *)
RECURSIVE OrderByDateDesc(_)
OrderByDateDesc(S) ==
    IF S = {} THEN {<<>>}
    ELSE LET G == {r \in S : r.date = MaxDate(S)}
         IN  {p \o q : p \in Orderings(G), q \in OrderByDateDesc(S \ G)}

(* LedgerQuery without the WHERE *)
LedgerQuery_NoFilter(table, account) == OrderByDateDesc(Range(table))

(* select(JournalEntry).where(account == selected).order_by(date.desc()) *)
LedgerQuery(table, account) ==
    OrderByDateDesc({r \in Range(table) : r.account = account})

(* select(JournalEntry.account).distinct(): the distinct names, in an      *)
(* order the query does not fix                                            *)
DistinctAccounts(table) == Orderings({r.account : r \in Range(table)})

(* What a read of the database sees: the table and the postings so far *)
Seen == [rows |-> Len(store), postings |-> Len(posted)]

(* get_ledger_entries: fetch the rows of the selected account *)
get_ledger_entries(s) ==
    /\ pc[s] = "idle"
    /\ \E q \in LedgerQuery(store, selected_account[s]) :
           ledger_entries' = [ledger_entries EXCEPT ![s] = q]
    /\ ledger_seen' = [ledger_seen EXCEPT ![s] = Seen]
    /\ ReturnNone(s)
    /\ UNCHANGED <<dbVars, now, acctVars, selected_account,
                   available_accounts, tbVars>>

(* set_account: select an account and fetch its rows *)
set_account(s, account) ==
    /\ pc[s] = "idle"
    /\ selected_account' = [selected_account EXCEPT ![s] = account]
    /\ \E q \in LedgerQuery(store, account) :
           ledger_entries' = [ledger_entries EXCEPT ![s] = q]
    /\ ledger_seen' = [ledger_seen EXCEPT ![s] = Seen]
    /\ ReturnNone(s)
    /\ UNCHANGED <<dbVars, now, acctVars, available_accounts, tbVars>>

(* get_accounts: list the account names, fall back to the first one when   *)
(* the selection is not among them, fetch the rows of the selection        *)
get_accounts(s) ==
    /\ pc[s] = "idle"
    /\ \E av \in DistinctAccounts(store) :
         LET sel == IF av # <<>> /\ selected_account[s] \notin Range(av)
                    THEN av[1] ELSE selected_account[s]
         IN  /\ available_accounts' = [available_accounts EXCEPT ![s] = av]
             /\ selected_account' = [selected_account EXCEPT ![s] = sel]
             /\ \E q \in LedgerQuery(store, sel) :
                    ledger_entries' = [ledger_entries EXCEPT ![s] = q]
    /\ ledger_seen' = [ledger_seen EXCEPT ![s] = Seen]
    /\ ReturnNone(s)
    /\ UNCHANGED <<dbVars, now, acctVars, tbVars>>

(* account_balance: debits minus credits of the fetched rows *)
account_balance(s) == SumDebit(ledger_entries[s]) - SumCredit(ledger_entries[s])

----------------------------------------------------------------------------
(* TrialBalanceState *)

(* The first loop of calculate_trial_balance: account_map, a dict in       *)
(* first-seen key order, as the keys and the net amount of each            *)
RECURSIVE AccountMap(_, _)
AccountMap(all_entries, m) ==
    IF all_entries = <<>> THEN m
    ELSE LET entry == Head(all_entries)
             m0 == IF entry.account \in DOMAIN m.net THEN m
                   ELSE [keys |-> Append(m.keys, entry.account),
                         net |-> (entry.account :> 0) @@ m.net]
             m1 == [m0 EXCEPT !.net[entry.account] =
                                  @ + (entry.debit - entry.credit)]
         IN  AccountMap(Tail(all_entries), m1)

(* account_map = {} *)
EmptyMap == [keys |-> <<>>, net |-> <<>>]

(* TrialBalanceRow(account, debit_balance, credit_balance); the two        *)
(* formatted strings are display text and are left out                     *)
TrialBalanceRow(acc, dr, cr) ==
    [account |-> acc, debit_balance |-> dr, credit_balance |-> cr]

(* Skipped as if abs(net_bal) <= 0.01 *)
Skipped_Inclusive(net_bal) == Abs(net_bal) <= EPS

(* if abs(net_bal) < 0.01: continue *)
Skipped(net_bal) == Abs(net_bal) < EPS

(* The second loop of calculate_trial_balance over account_map.items() *)
RECURSIVE TrialBalanceLoop(_, _, _)
TrialBalanceLoop(keys, net, acc) ==
    IF keys = <<>> THEN acc
    ELSE LET a == Head(keys)
             net_bal == net[a]
             dr == IF net_bal > 0 THEN net_bal ELSE 0
             cr == IF net_bal < 0 THEN Abs(net_bal) ELSE 0
         IN  IF Skipped(net_bal)
             THEN TrialBalanceLoop(Tail(keys), net, acc)
             ELSE TrialBalanceLoop(Tail(keys), net,
                      [new_rows |-> Append(acc.new_rows, TrialBalanceRow(a, dr, cr)),
                       t_dr |-> acc.t_dr + dr,
                       t_cr |-> acc.t_cr + cr])

(* The result of calculate_trial_balance on the rows of the table, which   *)
(* select(JournalEntry) returns in the order of the table                  *)
TrialBalance(all_entries) ==
    LET m == AccountMap(all_entries, EmptyMap)
    IN  TrialBalanceLoop(m.keys, m.net, [new_rows |-> <<>>, t_dr |-> 0, t_cr |-> 0])

(* AssignRows as if self.rows += new_rows *)
AssignRows_Append(old_rows, new_rows) == old_rows \o new_rows

(* self.rows = new_rows *)
AssignRows(old_rows, new_rows) == new_rows

(* calculate_trial_balance *)
calculate_trial_balance(s) ==
    /\ pc[s] = "idle"
    /\ LET tb == TrialBalance(store) IN
        /\ rows' = [rows EXCEPT ![s] = AssignRows(rows[s], tb.new_rows)]
        /\ total_dr' = [total_dr EXCEPT ![s] = tb.t_dr]
        /\ total_cr' = [total_cr EXCEPT ![s] = tb.t_cr]
    /\ tb_seen' = [tb_seen EXCEPT ![s] = Len(store)]
    /\ ReturnNone(s)
    /\ UNCHANGED <<dbVars, now, acctVars, ledgerVars>>

(* is_balanced *)
is_balanced(s) == Abs(total_dr[s] - total_cr[s]) < EPS

----------------------------------------------------------------------------
(* The clock moves on by a minute *)
Tick ==
    /\ now < InitMinute + MaxTicks
    /\ now' = now + 1
    /\ UNCHANGED <<dbVars, alert, acctVars, ledgerVars, tbVars>>

----------------------------------------------------------------------------
(* Spec: one client on the posting page, with every kind of amount *)

Next ==
    \/ \E v \in {"Sold Widget"} : set_description("s1", v)
    \/ \E v \in {"abc", "-5", "100"} : set_amount("s1", v)
    \/ \E v \in {"Cash", "Sales Revenue"} : set_debit_account("s1", v)
    \/ add_transaction("s1")
    \/ add_transaction_reload("s1")
    \/ load_entries("s1")
    \/ Tick

Spec == Init /\ [][Next]_vars

(* SpecLedger: one client posting and reading the ledger page; the form    *)
(* never names one account on both sides, postings may share a minute      *)

NextLedger ==
    \/ set_amount("s1", "50")
    \/ set_debit_account("s1", "Bank Loan")
    \/ debit_account["s1"] = "Bank Loan" /\ set_credit_account("s1", "Cash")
    \/ add_transaction("s1")
    \/ add_transaction_reload("s1")
    \/ get_accounts("s1")
    \/ \E a \in Accounts : set_account("s1", a)
    \/ get_ledger_entries("s1")
    \/ Tick

SpecLedger == Init /\ [][NextLedger]_vars

(* SpecBalance: one client posting and reading the ledger page; an account *)
(* may be on both sides, postings are a minute apart                       *)

FreshMinute == \A i \in 1..Len(posted) : posted[i].date # FormatDate(now)

NextBalance ==
    \/ \E v \in {"50", "30"} : set_amount("s1", v)
    \/ \E v \in {"Cash", "Sales Revenue"} : set_credit_account("s1", v)
    \/ FreshMinute /\ add_transaction("s1")
    \/ add_transaction_reload("s1")
    \/ get_accounts("s1")
    \/ \E a \in {"Cash", "Sales Revenue"} : set_account("s1", a)
    \/ get_ledger_entries("s1")
    \/ Tick

SpecBalance == Init /\ [][NextBalance]_vars

(* SpecTB: one client posting small amounts and reading the trial balance *)

NextTB ==
    \/ \E v \in {"0.005", "0.02"} : set_amount("s1", v)
    \/ \E v \in Accounts : set_credit_account("s1", v)
    \/ add_transaction("s1")
    \/ add_transaction_reload("s1")
    \/ calculate_trial_balance("s1")

SpecTB == Init /\ [][NextTB]_vars

(* SpecConc: the clients post and read concurrently *)

NextConc ==
    \E s \in Sessions :
        \/ set_amount(s, "50")
        \/ add_transaction(s)
        \/ add_transaction_reload(s)
        \/ load_entries(s)
        \/ get_ledger_entries(s)
        \/ calculate_trial_balance(s)

SpecConc == Init /\ [][NextConc]_vars

(* SpecAll: one client using every operation *)

NextAll ==
    \/ set_description("s1", "Sold Widget")
    \/ set_amount("s1", "50")
    \/ add_transaction("s1")
    \/ add_transaction_reload("s1")
    \/ load_entries("s1")
    \/ get_accounts("s1")
    \/ \E a \in Accounts : set_account("s1", a)
    \/ get_ledger_entries("s1")
    \/ calculate_trial_balance("s1")

SpecAll == Init /\ [][NextAll]_vars

----------------------------------------------------------------------------
(* Properties *)

(* The net amount of an account over the rows of the table *)
RECURSIVE Net(_, _)
Net(a, table) ==
    IF table = <<>> THEN 0
    ELSE (IF Head(table).account = a
          THEN Head(table).debit - Head(table).credit ELSE 0)
         + Net(a, Tail(table))

(* The signed sum of the postings touching an account *)
RECURSIVE PostedNet(_, _)
PostedNet(a, posts) ==
    IF posts = <<>> THEN 0
    ELSE (IF Head(posts).debit_account = a THEN Head(posts).amount ELSE 0)
         - (IF Head(posts).credit_account = a THEN Head(posts).amount ELSE 0)
         + PostedNet(a, Tail(posts))

(* A step of client s that runs get_ledger_entries *)
LedgerRead(s) ==
    \/ get_ledger_entries(s)
    \/ get_accounts(s)
    \/ \E a \in Accounts : set_account(s, a)

(* q holds exactly the rows of the account, each once *)
ExactlyTheRowsOf(q, table, account) ==
    /\ Range(q) = {r \in Range(table) : r.account = account}
    /\ Len(q) = Cardinality(Range(q))

(* C1: after any valid postings, calculate_trial_balance leaves           *)
(* is_balanced true and total_dr equal to total_cr                        *)
C1_TrialBalanceAlwaysBalanced ==
    \A s \in Sessions : is_balanced(s) /\ total_dr[s] = total_cr[s]

(* C2: an add_transaction whose amount parses to a number above 0 appends *)
(* exactly two rows, the debit leg on debit_account and the credit leg on *)
(* credit_account, both with the form's description and the same date     *)
C2_TwoRowsPerPosting ==
    [][\A s \in Sessions :
        (add_transaction(s) /\ ParseFloat(amount[s]).ok
                            /\ ParseFloat(amount[s]).val > 0)
        => LET n == Len(store)
               amt == ParseFloat(amount[s]).val
           IN  /\ Len(store') = n + 2
               /\ SubSeq(store', 1, n) = store
               /\ store'[n + 1].account = debit_account[s]
               /\ store'[n + 1].category = "Debit"
               /\ store'[n + 1].debit = amt
               /\ store'[n + 1].credit = 0
               /\ store'[n + 2].account = credit_account[s]
               /\ store'[n + 2].category = "Credit"
               /\ store'[n + 2].debit = 0
               /\ store'[n + 2].credit = amt
               /\ store'[n + 1].description = description[s]
               /\ store'[n + 2].description = description[s]
               /\ store'[n + 1].date = FormatDate(now)
               /\ store'[n + 2].date = store'[n + 1].date]_vars

C2_Witness ==
    \E s \in Sessions :
        /\ pc[s] = "reload"
        /\ Len(store) = 4
        /\ store[3].description = "Sold Widget"
        /\ store[3].account = store[4].account

(* C3: an add_transaction whose amount does not parse, or parses to a     *)
(* value <= 0, leaves the store as it was and returns the matching error  *)
C3_InvalidAmountRejected ==
    [][\A s \in Sessions :
        (add_transaction(s) /\ (~ParseFloat(amount[s]).ok
                                \/ ParseFloat(amount[s]).val <= 0))
        => /\ store' = store
           /\ alert'[s] = IF ParseFloat(amount[s]).ok
                          THEN "Amount must be positive."
                          ELSE "Invalid Amount"]_vars

C3_Witness ==
    \E s \in Sessions :
        /\ alert[s] \in {"Invalid Amount", "Amount must be positive."}
        /\ amount[s] \in {"abc", "-5"}
        /\ Len(store) >= 2

(* The table, and the postings, as the last get_ledger_entries of client  *)
(* s saw them                                                             *)
LedgerTable(s) == SubSeq(store, 1, ledger_seen[s].rows)
LedgerPosted(s) == SubSeq(posted, 1, ledger_seen[s].postings)

(* C4: account_balance over the rows get_ledger_entries fetched is the    *)
(* sum over the postings touching the selected account, committed when it *)
(* read, of +amount where it was debited and -amount where it was         *)
(* credited                                                               *)
C4_BalanceIsSumOfPostings ==
    \A s \in Sessions :
        ledger_seen[s].rows >= 0
        => account_balance(s) = PostedNet(selected_account[s], LedgerPosted(s))

C4_Witness ==
    \E s \in Sessions :
        /\ selected_account[s] = "Cash"
        /\ Len(ledger_entries[s]) = 3
        /\ ledger_seen[s].postings = 2
        /\ account_balance(s) = 50000

(* C5: the store always holds, for each committed posting in turn, its    *)
(* debit leg followed by its credit leg and nothing else; the entries a   *)
(* client has loaded are the rows of a whole number of postings, and so   *)
(* is the table every get_ledger_entries and calculate_trial_balance read *)
C5_PostingsAtomic ==
    /\ Len(store) = 2 * Len(posted)
    /\ \A k \in 1..Len(posted) :
        /\ store[2 * k - 1].category = "Debit"
        /\ store[2 * k - 1].account = posted[k].debit_account
        /\ store[2 * k - 1].debit = posted[k].amount
        /\ store[2 * k].category = "Credit"
        /\ store[2 * k].account = posted[k].credit_account
        /\ store[2 * k].credit = posted[k].amount
        /\ store[2 * k].date = store[2 * k - 1].date
        /\ store[2 * k].description = store[2 * k - 1].description
    /\ \A s \in Sessions :
        /\ \E n \in 0..Len(posted) :
               Reverse(entries[s]) = SubSeq(store, 1, 2 * n)
        /\ ledger_seen[s].rows >= 0 =>
               ledger_seen[s].rows = 2 * ledger_seen[s].postings
        /\ tb_seen[s] >= 0 => tb_seen[s] % 2 = 0

C5_Witness ==
    /\ pc["s2"] = "reload"
    /\ Len(store) = 4
    /\ Len(entries["s1"]) = 2
    /\ ledger_seen["s1"].rows = 2
    /\ tb_seen["s1"] = 4

(* C6 as stated: get_ledger_entries returns exactly the rows of the       *)
(* selected account by date descending, rows of equal date last-inserted  *)
(* first                                                                  *)
C6_TiesLastInsertedFirst ==
    \A s \in Sessions :
        ledger_seen[s].rows >= 0
        => LET q == ledger_entries[s]
           IN  /\ ExactlyTheRowsOf(q, LedgerTable(s), selected_account[s])
               /\ \A i, j \in 1..Len(q) :
                    i < j => \/ DateLess(q[j].date, q[i].date)
                             \/ q[i].date = q[j].date /\ q[i].id > q[j].id

(* C6, amended: get_ledger_entries returns exactly the rows of the        *)
(* selected account, by date descending; the order among rows of equal    *)
(* date is not fixed                                                      *)
C6_LedgerByDateDesc ==
    \A s \in Sessions :
        ledger_seen[s].rows >= 0
        => LET q == ledger_entries[s]
           IN  /\ ExactlyTheRowsOf(q, LedgerTable(s), selected_account[s])
               /\ \A i, j \in 1..Len(q) :
                    i < j => ~DateLess(q[i].date, q[j].date)

C6_Witness ==
    \E s \in Sessions :
        /\ Len(ledger_entries[s]) = 2
        /\ ledger_entries[s][1].date = ledger_entries[s][2].date
        /\ ledger_entries[s][1].id < ledger_entries[s][2].id

RowsMatchNet(rws, table) ==
    /\ \A a \in Accounts :
        (\E i \in 1..Len(rws) : rws[i].account = a) <=> Abs(Net(a, table)) >= EPS
    /\ \A i \in 1..Len(rws) :
        LET net == Net(rws[i].account, table)
        IN  /\ net > 0 => rws[i].debit_balance = net /\ rws[i].credit_balance = 0
            /\ net < 0 => rws[i].debit_balance = 0 /\ rws[i].credit_balance = Abs(net)
            /\ rws[i].debit_balance >= 0
            /\ rws[i].credit_balance >= 0
            /\ rws[i].debit_balance = 0 \/ rws[i].credit_balance = 0

(* C8: after calculate_trial_balance an account has a row exactly when    *)
(* abs(net) >= 0.01; the row carries net as debit_balance when net > 0    *)
(* and abs(net) as credit_balance when net < 0, the other balance being 0 *)
C8_RowsIffAboveThreshold ==
    \A s \in Sessions :
        tb_seen[s] >= 0 => RowsMatchNet(rows[s], SubSeq(store, 1, tb_seen[s]))

C8_Witness ==
    \E s \in Sessions :
        /\ tb_seen[s] = Len(store)
        /\ \E i, j \in 1..Len(rows[s]) :
            rows[s][i].debit_balance > 0 /\ rows[s][j].credit_balance > 0
        /\ \E r \in Range(store) :
            /\ Net(r.account, store) # 0
            /\ \A i \in 1..Len(rows[s]) : rows[s][i].account # r.account

(* C9: every step keeps the rows already in the store, in place and       *)
(* unchanged; only add_transaction changes the store, and every read      *)
(* operation leaves it as it was                                          *)
C9_StoreAppendOnly ==
    [][/\ Len(store') >= Len(store)
       /\ SubSeq(store', 1, Len(store)) = store
       /\ store' # store => \E s \in Sessions : add_transaction(s)
       /\ store' # store =>
            \A s \in Sessions : ~(\/ load_entries(s)
                                  \/ LedgerRead(s)
                                  \/ calculate_trial_balance(s))]_vars

C9_Witness ==
    \E s \in Sessions :
        /\ Len(store) = 4
        /\ Len(entries[s]) = 4
        /\ Len(ledger_entries[s]) = 2
        /\ Len(available_accounts[s]) = 2
        /\ Len(rows[s]) = 2

====
